---- MODULE Spec2Model ----
(***************************************************************************)
(* Model of blutils' mv (src/src/mv.rs): main's loop over the source       *)
(* paths, backup() and mv(), over a filesystem of regular files.           *)
(*                                                                         *)
(* A path is a sequence of one-character strings, a file content a         *)
(* sequence of bytes.  Option<T> is a sequence of length <= 1: <<>> is     *)
(* None and <<x>> is Some(x).  "xFF" stands for a byte that is no UTF-8,   *)
(* "NUL" for the zero byte.                                                *)
(***************************************************************************)
EXTENDS Integers, Sequences, FiniteSets, TLC

VARIABLES cli, fs, idx, pc, trace, stderr

vars == <<cli, fs, idx, pc, trace, stderr>>

----------------------------------------------------------------------------
(* Bounds of the model *)

\* longest source list of one invocation
MaxSources == 2
\* longest raw source string whose resolution is followed
MaxLen == 3
\* numbered backups dest+suffix+0 .. dest+suffix+(MaxBackups-1) may pre-exist
MaxBackups == 2

----------------------------------------------------------------------------
(* Option<T> *)

is_some(o) == o # <<>>

unwrap_or(o, d) == IF o = <<>> THEN d ELSE o[1]

----------------------------------------------------------------------------
(* enum Choice *)

Choice == {"None", "Off", "Numbered", "T", "Existing", "Nil", "Simple", "Never"}

----------------------------------------------------------------------------
(* Strings *)

ends_with_slash(s) == Len(s) > 0 /\ s[Len(s)] = "/"

Digit(d) == CASE d = 0 -> "0" [] d = 1 -> "1" [] d = 2 -> "2" [] d = 3 -> "3"
              [] d = 4 -> "4" [] d = 5 -> "5" [] d = 6 -> "6" [] d = 7 -> "7"
              [] d = 8 -> "8" [] d = 9 -> "9"

\* format!("{}", i) of a non-negative integer: its decimal digits
RECURSIVE FormatInt(_)
FormatInt(i) == IF i < 10 THEN <<Digit(i)>>
                ELSE FormatInt(i \div 10) \o <<Digit(i % 10)>>

\* Path::to_str: None when the path is not UTF-8
to_str(s) == IF \E n \in DOMAIN s : s[n] = "xFF" THEN <<>> ELSE <<s>>

\* CString::new: Err (here <<>>) when the string holds a zero byte
CString_new(s) == IF \E n \in DOMAIN s : s[n] = "NUL" THEN <<>> ELSE <<s>>

----------------------------------------------------------------------------
(* The filesystem: a function from the paths of the existing regular       *)
(* files to their contents.  A path with a trailing '/' names no regular   *)
(* file (ENOTDIR), nor does the empty path (ENOENT).                       *)

\* Path::exists
exists(f, s) == s # <<>> /\ ~ends_with_slash(s) /\ s \in DOMAIN f

\* PathBuf::try_exists: Ok(true), Ok(false), or Err when the lookup fails
\* for another reason than the file being absent (here ENOTDIR)
try_exists(f, s) ==
    IF ends_with_slash(s) /\ SubSeq(s, 1, Len(s) - 1) \in DOMAIN f
    THEN [is_err |-> TRUE, val |-> FALSE]
    ELSE [is_err |-> FALSE, val |-> exists(f, s)]

Put(f, s, c) == [q \in DOMAIN f \cup {s} |-> IF q = s THEN c ELSE f[q]]

Remove(f, s) == [q \in DOMAIN f \ {s} |-> f[q]]

\* fs::copy(from, to): the outcomes, each the Result and the filesystem
\* left.  It fails when from is no existing regular file or to cannot be
\* created.  Copying a file onto itself "will likely truncate" it (std's
\* documentation): either outcome may be produced.
fs_copy(f, from, to) ==
    IF ~exists(f, from) \/ to = <<>> \/ ends_with_slash(to)
    THEN {[ok |-> FALSE, fs |-> f]}
    ELSE IF from = to
    THEN {[ok |-> TRUE, fs |-> f], [ok |-> TRUE, fs |-> Put(f, to, <<>>)]}
    ELSE {[ok |-> TRUE, fs |-> Put(f, to, f[from])]}

\* libc rename(source, dest): oserr is a failure the OS reports (EXDEV for
\* a move across filesystems, EACCES, ...); a missing source is ENOENT, a
\* regular file addressed with a trailing '/' is ENOTDIR.  Renaming a path
\* to itself succeeds and does nothing.
rename(f, source, dest, oserr) ==
    IF oserr \/ ~exists(f, source) \/ dest = <<>> \/ ends_with_slash(dest)
    THEN [ok |-> FALSE, fs |-> f]
    ELSE IF source = dest
    THEN [ok |-> TRUE, fs |-> f]
    ELSE [ok |-> TRUE, fs |-> Put(Remove(f, source), dest, f[source])]

----------------------------------------------------------------------------
(* crate::utils (not in src/): wrap reports the error of a failed Result   *)
(* and returns; libc_wrap turns rename's return code into a Result.        *)

wrap(result, what, err) == IF result.ok THEN err ELSE Append(err, what)

libc_wrap(r) == r

----------------------------------------------------------------------------
(* backup(cli, p), mv.rs lines 176-221 *)

\* line 182
suffix(c) == unwrap_or(c.suffix, <<"~">>)

\* line 184
choice(c) == unwrap_or(c.backup_choice, "Existing")

\* line 178: the condition under which backup() returns at once
backup_skipped(c, f) ==
    (~c.backup /\ ~is_some(c.backup_choice)) \/ try_exists(f, c.destination).is_err

\* a loop that goes on to the index above the highest existing one
RECURSIVE first_free_above_all(_, _, _)
first_free_above_all(f, base, i) ==
    IF \E j \in i..(i + Cardinality(DOMAIN f)) : exists(f, base \o FormatInt(j))
    THEN first_free_above_all(f, base, i + 1)
    ELSE i

\* a loop that takes its first index without probing
first_free_no_probe(f, base, i) == i

\* a loop that increments before its first probe
RECURSIVE first_free_from_one(_, _, _)
first_free_from_one(f, base, i) ==
    IF ~exists(f, base \o FormatInt(i + 1)) THEN i + 1
    ELSE first_free_from_one(f, base, i + 1)

\* lines 195-204 and 207-216: the first i, counting up from i, whose path
\* base+i does not exist
RECURSIVE first_free(_, _, _)
first_free(f, base, i) ==
    IF ~exists(f, base \o FormatInt(i)) THEN i ELSE first_free(f, base, i + 1)

\* lines 195-204 and 207-216: the number of times the loop started at i
\* tests a path for existence
RECURSIVE loop_probes(_, _, _)
loop_probes(f, base, i) ==
    IF ~exists(f, base \o FormatInt(i)) THEN 1 ELSE 1 + loop_probes(f, base, i + 1)

\* None handled as Simple
backup_path_none_as_simple(c, f) ==
    LET bare == c.destination \o suffix(c)
        numbered == bare \o FormatInt(first_free(f, bare, 0))
    IN  IF choice(c) \in {"Nil", "Existing"}
        THEN IF ~exists(f, bare) THEN <<bare>> ELSE <<numbered>>
        ELSE IF choice(c) \in {"Numbered", "T"} THEN <<numbered>>
        ELSE <<bare>>

\* Numbered handled by the branch of Existing
backup_path_numbered_as_existing(c, f) ==
    LET bare == c.destination \o suffix(c)
        numbered == bare \o FormatInt(first_free(f, bare, 0))
    IN  IF choice(c) \in {"Nil", "Existing", "Numbered", "T"}
        THEN IF ~exists(f, bare) THEN <<bare>> ELSE <<numbered>>
        ELSE IF choice(c) \in {"Simple", "Never"} THEN <<bare>>
        ELSE <<>>

\* lines 183-220: the path the backup copy is written to, as an Option
backup_path(c, f) ==
    LET bare == c.destination \o suffix(c)
        numbered == bare \o FormatInt(first_free(f, bare, 0))
    IN  IF choice(c) \in {"Nil", "Existing"}
        THEN IF ~exists(f, bare) THEN <<bare>> ELSE <<numbered>>
        ELSE IF choice(c) \in {"Numbered", "T"} THEN <<numbered>>
        ELSE IF choice(c) \in {"Simple", "Never"} THEN <<bare>>
        ELSE <<>>

\* lines 191-216: whether the call enters one of the two index loops
backup_loops(c, f) ==
    \/ choice(c) \in {"Numbered", "T"}
    \/ choice(c) \in {"Nil", "Existing"} /\ exists(f, c.destination \o suffix(c))

\* what the backup copy reads (lines 193, 199, 211, 218)
backup_from(c, p) == p

\* the outcomes of backup(cli, p) on filesystem f: the filesystem left, the
\* filesystem calls made and the errors reported
backup(c, f, p) ==
    IF backup_skipped(c, f) \/ backup_path(c, f) = <<>>
    THEN {[fs |-> f, ops |-> <<>>, errs |-> <<>>]}
    ELSE LET from == backup_from(c, p)
             to == backup_path(c, f)[1]
         IN  {[fs |-> o.fs,
               ops |-> <<[op |-> "copy", from |-> from, to |-> to, ok |-> o.ok,
                          probes |-> IF backup_loops(c, f)
                                     THEN loop_probes(f, c.destination \o suffix(c), 0)
                                     ELSE 0]>>,
               errs |-> wrap(o, "copy", <<>>)] : o \in fs_copy(f, from, to)}

----------------------------------------------------------------------------
(* mv(cli, p), mv.rs lines 223-277 *)

\* a strip that pops one '/' only
strip_trailing_once(s) ==
    IF ends_with_slash(s) THEN SubSeq(s, 1, Len(s) - 1) ELSE s

\* lines 231-234
RECURSIVE strip_trailing(_)
strip_trailing(s) ==
    IF ends_with_slash(s) THEN strip_trailing(SubSeq(s, 1, Len(s) - 1)) ELSE s

\* the resolution with the test of target_directory first
source_target_first(c, p) ==
    IF c.target_directory
    THEN (IF ~ends_with_slash(p) THEN Append(p, "/") ELSE p)
    ELSE IF c.strip_trailing_slashes \/ c.no_target_directory THEN strip_trailing(p)
    ELSE p

\* the resolution that appends '/' without looking
source_always_appends(c, p) ==
    IF c.strip_trailing_slashes \/ c.no_target_directory THEN strip_trailing(p)
    ELSE IF c.target_directory THEN Append(p, "/")
    ELSE p

\* lines 228-246: the string handed to rename as the source
source(c, p) ==
    IF c.strip_trailing_slashes \/ c.no_target_directory THEN strip_trailing(p)
    ELSE IF c.target_directory
    THEN (IF ~ends_with_slash(p) THEN Append(p, "/") ELSE p)
    ELSE p

\* line 247
dest(c) == c.destination

\* lines 230, 237, 239, 243, 245, 247: the unwrap() of to_str or of
\* CString::new panics, which ends the process before rename is called
mv_panics(c, p) ==
    \/ to_str(p) = <<>>
    \/ CString_new(source(c, p)) = <<>>
    \/ to_str(c.destination) = <<>>
    \/ CString_new(dest(c)) = <<>>

\* mv with the test of the rename result inverted
mv_inverted(c, f, p, rename_err) ==
    LET rename_result == libc_wrap(rename(f, source(c, p), dest(c), rename_err))
        rename_op == [op |-> "rename", from |-> source(c, p), to |-> dest(c),
                      ok |-> rename_result.ok]
    IN  IF rename_result.ok
        THEN {[fs |-> o.fs,
               ops |-> <<rename_op,
                         [op |-> "copy", from |-> p, to |-> c.destination,
                          ok |-> o.ok]>>,
               errs |-> wrap(o, "copy", <<>>)]
              : o \in fs_copy(rename_result.fs, p, c.destination)}
        ELSE {[fs |-> f, ops |-> <<rename_op>>, errs |-> <<>>]}

\* mv whose fallback removes the source after a successful copy
mv_copy_then_delete(c, f, p, rename_err) ==
    LET rename_result == libc_wrap(rename(f, source(c, p), dest(c), rename_err))
        rename_op == [op |-> "rename", from |-> source(c, p), to |-> dest(c),
                      ok |-> rename_result.ok]
    IN  IF ~rename_result.ok
        THEN IF ~c.no_copy
             THEN {[fs |-> IF o.ok THEN Remove(o.fs, p) ELSE o.fs,
                    ops |-> <<rename_op,
                              [op |-> "copy", from |-> p, to |-> c.destination,
                               ok |-> o.ok]>>,
                    errs |-> wrap(o, "copy", <<>>)]
                   : o \in fs_copy(f, p, c.destination)}
             ELSE {[fs |-> f, ops |-> <<rename_op>>,
                    errs |-> wrap(rename_result, "rename", <<>>)]}
        ELSE {[fs |-> rename_result.fs, ops |-> <<rename_op>>, errs |-> <<>>]}

\* mv that does not read no_copy
mv_ignoring_no_copy(c, f, p, rename_err) ==
    LET rename_result == libc_wrap(rename(f, source(c, p), dest(c), rename_err))
        rename_op == [op |-> "rename", from |-> source(c, p), to |-> dest(c),
                      ok |-> rename_result.ok]
    IN  IF ~rename_result.ok
        THEN {[fs |-> o.fs,
               ops |-> <<rename_op,
                         [op |-> "copy", from |-> p, to |-> c.destination,
                          ok |-> o.ok]>>,
               errs |-> wrap(o, "copy", <<>>)]
              : o \in fs_copy(f, p, c.destination)}
        ELSE {[fs |-> rename_result.fs, ops |-> <<rename_op>>, errs |-> <<>>]}

\* lines 261-276: the outcomes of mv(cli, p) on filesystem f
mv(c, f, p, rename_err) ==
    LET rename_result == libc_wrap(rename(f, source(c, p), dest(c), rename_err))
        rename_op == [op |-> "rename", from |-> source(c, p), to |-> dest(c),
                      ok |-> rename_result.ok]
    IN  IF ~rename_result.ok
        THEN IF ~c.no_copy
             THEN {[fs |-> o.fs,
                    ops |-> <<rename_op,
                              [op |-> "copy", from |-> p, to |-> c.destination,
                               ok |-> o.ok]>>,
                    errs |-> wrap(o, "copy", <<>>)]
                   : o \in fs_copy(f, p, c.destination)}
             ELSE {[fs |-> f, ops |-> <<rename_op>>,
                    errs |-> wrap(rename_result, "rename", <<>>)]}
        ELSE {[fs |-> rename_result.fs, ops |-> <<rename_op>>, errs |-> <<>>]}

----------------------------------------------------------------------------
(* main, mv.rs lines 156-174 *)

\* the loop body with its two calls exchanged
main_body_swapped == <<"mv", "backup">>

\* lines 171-172: the calls of the loop body, in order
main_body == <<"backup", "mv">>

\* a loop that takes the sources from the last to the first
p_reversed == cli.source[Len(cli.source) + 1 - idx]

\* the source arguments: a plain file, a file named with a trailing '/',
\* and the destination itself
SourceNames == {<<"a">>, <<"b", "/">>, <<"d">>}

Injective(l) == \A m, n \in DOMAIN l : l[m] = l[n] => m = n

\* the lists of up to MaxSources different source arguments
SourceLists ==
    {l \in UNION {[1..n -> SourceNames] : n \in 1..MaxSources} : Injective(l)}

\* the invocations: every backup option, suffix given as "" or not given.
\* no_target_directory is read once (line 228), in disjunction with
\* strip_trailing_slashes, and is left unset here.
Cli ==
    [source : SourceLists,
     destination : {<<"d">>},
     backup_choice : {<<>>} \cup {<<ch>> : ch \in Choice},
     backup : BOOLEAN,
     no_copy : BOOLEAN,
     strip_trailing_slashes : BOOLEAN,
     suffix : {<<>>, << <<>> >>},
     target_directory : BOOLEAN,
     no_target_directory : {FALSE}]

\* the filesystems an invocation may start on: the plain sources exist,
\* the destination and its earlier backups may or may not
InitFs(c) ==
    LET bare == c.destination \o suffix(c)
        optional == {c.destination, bare}
                      \cup {bare \o FormatInt(i) : i \in 0..(MaxBackups - 1)}
        always == {<<"a">>, <<"b">>}
    IN  {[q \in always \cup S |-> q] : S \in SUBSET optional}

Init ==
    /\ cli \in Cli
    /\ fs \in InitFs(cli)
    /\ idx = 1
    /\ pc = 1
    /\ trace = <<>>
    /\ stderr = <<>>

\* pc = 0: the process has ended by a panic
Running == pc > 0 /\ idx <= Len(cli.source)

p == cli.source[idx]

\* a loop that ends the process when the mv of a source reported an error
Advance_exit_on_mv_error ==
    LET failed == main_body[pc] = "mv" /\ stderr' # stderr
    IN  /\ pc' = IF failed THEN 0 ELSE IF pc < Len(main_body) THEN pc + 1 ELSE 1
        /\ idx' = IF pc < Len(main_body) THEN idx ELSE idx + 1
        /\ UNCHANGED cli

\* a loop that ends the process when the backup copy reported an error
Advance_exit_on_backup_error ==
    LET failed == main_body[pc] = "backup" /\ stderr' # stderr
    IN  /\ pc' = IF failed THEN 0 ELSE IF pc < Len(main_body) THEN pc + 1 ELSE 1
        /\ idx' = IF pc < Len(main_body) THEN idx ELSE idx + 1
        /\ UNCHANGED cli

Advance ==
    /\ pc' = IF pc < Len(main_body) THEN pc + 1 ELSE 1
    /\ idx' = IF pc < Len(main_body) THEN idx ELSE idx + 1
    /\ UNCHANGED cli

Record(fn, o) ==
    /\ fs' = o.fs
    /\ trace' = Append(trace, [k |-> idx, fn |-> fn, pre |-> fs, post |-> o.fs,
                               ops |-> o.ops])
    /\ stderr' = stderr \o [j \in 1..Len(o.errs) |->
                              [k |-> idx, fn |-> fn, what |-> o.errs[j]]]

\* line 171
Backup ==
    /\ Running
    /\ main_body[pc] = "backup"
    /\ \E o \in backup(cli, fs, p) : Record("backup", o)
    /\ Advance

\* a panic in a call: nothing is written, the process ends
Panic ==
    /\ Record("panic", [fs |-> fs, ops |-> <<>>, errs |-> <<"panic">>])
    /\ pc' = 0
    /\ UNCHANGED <<cli, idx>>

\* line 172
Mv ==
    /\ Running
    /\ main_body[pc] = "mv"
    /\ IF mv_panics(cli, p)
       THEN Panic
       ELSE /\ \E rename_err \in BOOLEAN :
                 \E o \in mv(cli, fs, p, rename_err) : Record("mv", o)
            /\ Advance

Next == Backup \/ Mv

Spec == Init /\ [][Next]_vars

----------------------------------------------------------------------------
(* Invocations of one raw source string, under every combination of the    *)
(* three flags the resolution of the source reads.                         *)

\* the strings of 1..MaxLen characters over 'a' and '/'
RawStrings == UNION {[1..n -> {"a", "/"}] : n \in 1..MaxLen}

CliResolve ==
    [source : {<<r>> : r \in RawStrings},
     destination : {<<"d">>},
     backup_choice : {<<>>},
     backup : {FALSE},
     no_copy : BOOLEAN,
     strip_trailing_slashes : BOOLEAN,
     suffix : {<<>>},
     target_directory : BOOLEAN,
     no_target_directory : BOOLEAN]

InitResolve ==
    /\ cli \in CliResolve
    /\ fs \in {[q \in {<<"a">>} \cup S |-> q] : S \in SUBSET {<<"d">>}}
    /\ idx = 1
    /\ pc = 1
    /\ trace = <<>>
    /\ stderr = <<>>

SpecResolve == InitResolve /\ [][Next]_vars

----------------------------------------------------------------------------
(* Invocations with a source argument that is not UTF-8.  (An argument of  *)
(* a process holds no zero byte.)                                          *)

ByteNames == {<<"a">>, <<"xFF">>}

CliBytes ==
    [source : {l \in UNION {[1..n -> ByteNames] : n \in 1..MaxSources} :
                  Injective(l)},
     destination : {<<"d">>},
     backup_choice : {<<>>} \cup {<<ch>> : ch \in Choice},
     backup : BOOLEAN,
     no_copy : BOOLEAN,
     strip_trailing_slashes : BOOLEAN,
     suffix : {<<>>},
     target_directory : BOOLEAN,
     no_target_directory : {FALSE}]

InitBytes ==
    /\ cli \in CliBytes
    /\ fs \in {Put(f, <<"xFF">>, <<"xFF">>) : f \in InitFs(cli)}
    /\ idx = 1
    /\ pc = 1
    /\ trace = <<>>
    /\ stderr = <<>>

SpecBytes == InitBytes /\ [][Next]_vars

----------------------------------------------------------------------------
(* The calls made so far, and what they did *)

Calls(fn) == {j \in DOMAIN trace : trace[j].fn = fn}

\* the bare backup path dest+suffix
Bare == cli.destination \o suffix(cli)

\* the paths a call created, rewrote or removed
Changed(e) ==
    {q \in DOMAIN e.pre \cup DOMAIN e.post :
        ~(q \in DOMAIN e.pre /\ q \in DOMAIN e.post /\ e.pre[q] = e.post[q])}

\* q is dest+suffix+i for the smallest i >= 0 whose path is free in f
IsFirstFreeNumbered(f, q) ==
    \E i \in 0..Cardinality(DOMAIN f) :
        /\ q = Bare \o FormatInt(i)
        /\ q \notin DOMAIN f
        /\ \A j \in 0..(i - 1) : Bare \o FormatInt(j) \in DOMAIN f

\* q is dest+suffix or dest+suffix+i
IsBackupPath(f, q) ==
    q = Bare \/ \E i \in 0..Cardinality(DOMAIN f) : q = Bare \o FormatInt(i)

\* -b or --backup was given
BackupGiven == cli.backup \/ is_some(cli.backup_choice)

\* the backup calls whose copy succeeded
BackupsMade ==
    {j \in Calls("backup") : Len(trace[j].ops) = 1 /\ trace[j].ops[1].ok}

\* the plain case of a call: its source is an existing file that is neither
\* the destination nor dest+suffix, and the suffix is not empty
Plain(e) ==
    /\ exists(e.pre, cli.source[e.k])
    /\ cli.source[e.k] \notin {cli.destination, Bare}
    /\ Bare # cli.destination

----------------------------------------------------------------------------
(* C1 *)

\* C1: whenever the backup step writes a backup file, the content written to
\* the backup path is the content the destination held immediately before
\* (the destination's old content, not the source's).  Stated for the plain
\* case.
BackupHoldsOldDestination ==
    \A j \in Calls("backup") :
        LET e == trace[j] IN
        \A n \in DOMAIN e.ops :
            (Plain(e) /\ e.ops[n].ok /\ cli.destination \in DOMAIN e.pre)
                => /\ e.ops[n].to \in DOMAIN e.post
                   /\ e.post[e.ops[n].to] = e.pre[cli.destination]

----------------------------------------------------------------------------
(* C2 *)

\* a backup that makes a copy is asked for: -b or --backup, and not =none/off
BackupRequested == BackupGiven /\ choice(cli) \notin {"None", "Off"}

\* C2: every mv call of a source comes directly after the backup call of
\* that same source, so no rename or fallback copy writes the destination
\* before the backup step of its source; and when a backup is requested and
\* the destination exists as that source is reached, that backup call has
\* issued its copy.
BackupPrecedesMove ==
    \A j \in Calls("mv") :
        /\ j > 1
        /\ trace[j - 1].fn = "backup"
        /\ trace[j - 1].k = trace[j].k
        /\ (BackupRequested /\ cli.destination \in DOMAIN trace[j - 1].pre)
              => /\ Len(trace[j - 1].ops) = 1
                 /\ trace[j - 1].ops[1].op = "copy"
        /\ \A i \in 1..(j - 2) : trace[i].k < trace[j].k

\* a destination that existed was backed up and then overwritten by a rename
BackupPrecedesMoveWitness ==
    \E j \in Calls("mv") :
        /\ j > 1
        /\ BackupRequested
        /\ cli.destination \in DOMAIN trace[j - 1].pre
        /\ Len(trace[j - 1].ops) = 1
        /\ trace[j - 1].ops[1].ok
        /\ trace[j].ops[1].ok
        /\ cli.destination \in Changed(trace[j])

----------------------------------------------------------------------------
(* C3 *)

\* C3: a backup copy is attempted only if backup is given and the destination
\* exists; where the destination does not exist, backup() makes no copy and
\* creates no file.  Stated for the plain case.
BackupOnlyIfDestinationExists ==
    \A j \in Calls("backup") :
        LET e == trace[j] IN
        Plain(e) =>
            /\ e.ops # <<>> => (BackupGiven /\ cli.destination \in DOMAIN e.pre)
            /\ cli.destination \notin DOMAIN e.pre => (e.ops = <<>> /\ e.post = e.pre)

----------------------------------------------------------------------------
(* C4 *)

\* C4: under Existing or Numbered, every file at dest+suffix or
\* dest+suffix+i before a backup step is there with the same content after.
NumberedBackupsNeverOverwritten ==
    choice(cli) \in {"Existing", "Nil", "Numbered", "T"} =>
        \A j \in Calls("backup") :
            LET e == trace[j] IN
            \A q \in DOMAIN e.pre :
                IsBackupPath(e.pre, q) => (q \in DOMAIN e.post /\ e.post[q] = e.pre[q])

\* a backup was made while dest+suffix and dest+suffix+0 held earlier backups
NumberedBackupsNeverOverwrittenWitness ==
    /\ choice(cli) \in {"Existing", "Nil", "Numbered", "T"}
    /\ \E b \in BackupsMade :
         LET e == trace[b] IN
         /\ Bare # cli.destination
         /\ {Bare, Bare \o <<"0">>} \subseteq DOMAIN e.pre
         /\ Changed(e) # {}

----------------------------------------------------------------------------
(* C5 *)

\* C5: under Existing (or Nil, or -b alone) the backup is written at
\* dest+suffix when that path is free, else at dest+suffix+i for the
\* smallest i >= 0 whose path is free; nothing else is written.
ExistingBackupAtFirstFreeSlot ==
    choice(cli) \in {"Existing", "Nil"} =>
        \A j \in Calls("backup") :
            LET e == trace[j] IN
            \A n \in DOMAIN e.ops :
                /\ IF Bare \notin DOMAIN e.pre
                   THEN e.ops[n].to = Bare
                   ELSE IsFirstFreeNumbered(e.pre, e.ops[n].to)
                /\ Changed(e) = IF e.ops[n].ok THEN {e.ops[n].to} ELSE {}

\* -b alone: dest~ and dest~1 taken, dest~0 free, and the backup went to dest~0
ExistingBackupAtFirstFreeSlotWitness ==
    /\ cli.backup_choice = <<>>
    /\ \E b \in BackupsMade :
         LET e == trace[b] IN
         /\ {Bare, Bare \o <<"1">>} \subseteq DOMAIN e.pre
         /\ Changed(e) = {Bare \o <<"0">>}

----------------------------------------------------------------------------
(* C6 *)

\* C6: under Numbered (or T) the backup is written at dest+suffix+i for the
\* smallest i >= 0 whose path is free, whether or not dest+suffix is free,
\* and dest+suffix itself is never written.
NumberedBackupAtFirstFreeIndex ==
    choice(cli) \in {"Numbered", "T"} =>
        \A j \in Calls("backup") :
            LET e == trace[j] IN
            /\ Bare \notin Changed(e)
            /\ \A n \in DOMAIN e.ops :
                /\ IsFirstFreeNumbered(e.pre, e.ops[n].to)
                /\ Changed(e) = IF e.ops[n].ok THEN {e.ops[n].to} ELSE {}

\* dest+suffix was free and dest+suffix+0 taken: the backup went to index 1
NumberedBackupAtFirstFreeIndexWitness ==
    /\ choice(cli) \in {"Numbered", "T"}
    /\ \E b \in BackupsMade :
         LET e == trace[b] IN
         /\ Bare \notin DOMAIN e.pre
         /\ Bare \o <<"0">> \in DOMAIN e.pre
         /\ Changed(e) = {Bare \o <<"1">>}

----------------------------------------------------------------------------
(* C7 *)

\* C7: under Simple (or Never) every backup is written at exactly
\* dest+suffix, no numbered path is created, and dest+suffix then holds the
\* most recent snapshot of the destination.  Stated for the plain case.
SimpleBackupHoldsLatestSnapshot ==
    choice(cli) \in {"Simple", "Never"} =>
        \A j \in Calls("backup") :
            LET e == trace[j] IN
            \A n \in DOMAIN e.ops :
                Plain(e) =>
                    /\ e.ops[n].to = Bare
                    /\ Changed(e) \subseteq {Bare}
                    /\ (e.ops[n].ok /\ cli.destination \in DOMAIN e.pre)
                          => e.post[Bare] = e.pre[cli.destination]

----------------------------------------------------------------------------
(* C8 *)

\* an error of call e was reported
Reported(e, what) ==
    \E m \in DOMAIN stderr : stderr[m] = [k |-> e.k, fn |-> e.fn, what |-> what]

\* C8 as stated: when the rename succeeds, the source path no longer exists,
\* the destination holds the content the source had, no fallback copy is
\* made and no error is reported.
RenameSuccessMovesSource ==
    \A j \in Calls("mv") :
        LET e == trace[j] IN
        e.ops[1].ok =>
            /\ ~exists(e.post, cli.source[e.k])
            /\ ~exists(e.post, e.ops[1].from)
            /\ exists(e.post, cli.destination)
            /\ e.post[cli.destination] = e.pre[e.ops[1].from]
            /\ Len(e.ops) = 1
            /\ ~Reported(e, "rename") /\ ~Reported(e, "copy")

\* C8, amended: the same, when the source handed to rename is another path
\* than the destination.
RenameSuccessMovesDistinctSource ==
    \A j \in Calls("mv") :
        LET e == trace[j] IN
        (e.ops[1].ok /\ e.ops[1].from # cli.destination) =>
            /\ ~exists(e.post, cli.source[e.k])
            /\ ~exists(e.post, e.ops[1].from)
            /\ exists(e.post, cli.destination)
            /\ e.post[cli.destination] = e.pre[e.ops[1].from]
            /\ Len(e.ops) = 1
            /\ ~Reported(e, "rename") /\ ~Reported(e, "copy")

\* a rename of another path succeeded onto a destination that existed
RenameSuccessMovesDistinctSourceWitness ==
    \E j \in Calls("mv") :
        LET e == trace[j] IN
        /\ e.ops[1].ok
        /\ e.ops[1].from # cli.destination
        /\ exists(e.pre, cli.destination)
        /\ e.post[cli.destination] # e.pre[cli.destination]

----------------------------------------------------------------------------
(* C9 *)

\* C9 as stated: when the rename fails and --no-copy is not set, a copy is
\* made, after which the destination holds the source's content and the
\* source still exists unchanged.
FallbackCopiesAndKeepsSource ==
    \A j \in Calls("mv") :
        LET e == trace[j]
            src == cli.source[e.k]
        IN  (~e.ops[1].ok /\ ~cli.no_copy) =>
                /\ Len(e.ops) = 2
                /\ exists(e.pre, src)
                /\ exists(e.post, cli.destination)
                /\ e.post[cli.destination] = e.pre[src]
                /\ exists(e.post, src)
                /\ e.post[src] = e.pre[src]

\* C9, amended: when the rename fails and --no-copy is not set, mv attempts
\* a copy of the source to the destination and never removes the source; if
\* the copy succeeds and the source is not the destination itself, the
\* destination then holds the source's content and the source is unchanged.
FallbackCopyKeepsSource ==
    \A j \in Calls("mv") :
        LET e == trace[j]
            src == cli.source[e.k]
        IN  (~e.ops[1].ok /\ ~cli.no_copy) =>
                /\ Len(e.ops) = 2
                /\ e.ops[2].op = "copy"
                /\ e.ops[2].from = src
                /\ e.ops[2].to = cli.destination
                /\ exists(e.pre, src) => exists(e.post, src)
                /\ (e.ops[2].ok /\ src # cli.destination) =>
                      /\ exists(e.post, cli.destination)
                      /\ e.post[cli.destination] = e.pre[src]
                      /\ exists(e.post, src)
                      /\ e.post[src] = e.pre[src]

\* the rename of an existing source failed and the copy replaced the
\* destination's content
FallbackCopyKeepsSourceWitness ==
    \E j \in Calls("mv") :
        LET e == trace[j] IN
        /\ ~e.ops[1].ok
        /\ Len(e.ops) = 2
        /\ e.ops[2].ok
        /\ cli.source[e.k] # cli.destination
        /\ exists(e.pre, cli.destination)
        /\ e.post[cli.destination] # e.pre[cli.destination]

----------------------------------------------------------------------------
(* C10 *)

\* C10: when the rename fails and --no-copy is set, mv makes no copy, leaves
\* every file as it was, and the rename failure is reported.
NoCopyLeavesEverythingUnchanged ==
    \A j \in Calls("mv") :
        LET e == trace[j] IN
        (~e.ops[1].ok /\ cli.no_copy) =>
            /\ Len(e.ops) = 1
            /\ e.post = e.pre
            /\ Reported(e, "rename")

\* the rename of an existing source onto an existing destination failed
\* under --no-copy
NoCopyLeavesEverythingUnchangedWitness ==
    \E j \in Calls("mv") :
        LET e == trace[j] IN
        /\ ~e.ops[1].ok
        /\ cli.no_copy
        /\ exists(e.pre, cli.source[e.k])
        /\ cli.source[e.k] # cli.destination
        /\ exists(e.pre, cli.destination)

----------------------------------------------------------------------------
(* C11 *)

\* the move of call e failed: the rename failed and, either --no-copy is
\* set, or the fallback copy failed too
MoveFailed(e) ==
    /\ e.fn = "mv"
    /\ ~e.ops[1].ok
    /\ cli.no_copy \/ ~e.ops[2].ok

\* backup and mv have both been called for source k
Processed(k) ==
    /\ \E j \in Calls("backup") : trace[j].k = k
    /\ \E j \in Calls("mv") : trace[j].k = k

\* C11: after the move of a source failed, every later source of the list
\* has been processed (backup, then mv) or the loop is still running and has
\* not passed it.
FailedMoveDoesNotAbortBatch ==
    \A j \in Calls("mv") :
        MoveFailed(trace[j]) =>
            \A k \in (trace[j].k + 1)..Len(cli.source) :
                Processed(k) \/ (Running /\ idx <= k)

\* the move of the first source failed and the second source was then
\* backed up and renamed onto the destination
FailedMoveDoesNotAbortBatchWitness ==
    /\ Len(trace) = 4
    /\ MoveFailed(trace[2])
    /\ trace[3].fn = "backup" /\ trace[3].k = 2
    /\ trace[4].fn = "mv" /\ trace[4].k = 2
    /\ trace[4].ops[1].ok
    /\ ~Running

----------------------------------------------------------------------------
(* C13 *)

\* C13: a backup call whose copy failed has reported it and returned: the
\* next call is the mv of the same source.
FailedBackupCopyIsNotFatal ==
    \A j \in Calls("backup") :
        LET e == trace[j] IN
        (Len(e.ops) = 1 /\ ~e.ops[1].ok) =>
            /\ Reported(e, "copy")
            /\ IF j = Len(trace)
               THEN Running /\ idx = e.k /\ main_body[pc] = "mv"
               ELSE trace[j + 1].fn = "mv" /\ trace[j + 1].k = e.k

\* the backup copy failed and the rename that followed overwrote the
\* destination
FailedBackupCopyIsNotFatalWitness ==
    \E j \in Calls("backup") :
        /\ Len(trace[j].ops) = 1
        /\ ~trace[j].ops[1].ok
        /\ j < Len(trace)
        /\ trace[j + 1].fn = "mv"
        /\ trace[j + 1].ops[1].ok
        /\ cli.destination \in Changed(trace[j + 1])

----------------------------------------------------------------------------
(* C12 *)

\* C12: a source that is not representable as UTF-8 or as a C string is an
\* error for that source only: every later source of the list has been
\* processed, or the loop is still running and has not passed it.
UnrepresentableSourceFailsAlone ==
    \A k \in DOMAIN cli.source :
        (to_str(cli.source[k]) = <<>> \/ CString_new(cli.source[k]) = <<>>) =>
            \A k2 \in (k + 1)..Len(cli.source) :
                Processed(k2) \/ (Running /\ idx <= k2)

----------------------------------------------------------------------------
(* C14 *)

\* s is raw without its trailing '/' characters
IsStripped(raw, s) ==
    \E n \in 0..Len(raw) :
        /\ s = SubSeq(raw, 1, n)
        /\ ~ends_with_slash(s)
        /\ \A m \in (n + 1)..Len(raw) : raw[m] = "/"

\* C14: the source handed to rename is the raw source without its trailing
\* '/' when strip-trailing-slashes or no-target-directory is set (also when
\* target-directory is set); else, when target-directory is set, the raw
\* source with a '/' appended if it has none; else the raw source.  The
\* destination is handed over as given.
SourceResolvedByFirstMatchingMode ==
    \A j \in Calls("mv") :
        LET e == trace[j]
            raw == cli.source[e.k]
            from == e.ops[1].from
        IN  /\ e.ops[1].to = cli.destination
            /\ IF cli.strip_trailing_slashes \/ cli.no_target_directory
               THEN IsStripped(raw, from)
               ELSE IF cli.target_directory
               THEN from = IF raw[Len(raw)] = "/" THEN raw ELSE raw \o <<"/">>
               ELSE from = raw

\* strip-trailing-slashes and target-directory both set, a raw source with
\* two trailing '/': the stripped string was handed to rename
SourceResolvedByFirstMatchingModeWitness ==
    \E j \in Calls("mv") :
        /\ cli.strip_trailing_slashes /\ cli.target_directory
        /\ cli.source[trace[j].k] = <<"a", "/", "/">>
        /\ trace[j].ops[1].from = <<"a">>

----------------------------------------------------------------------------
(* C15 *)

\* the number of '/' characters s ends with
RECURSIVE TrailingSlashes(_)
TrailingSlashes(s) ==
    IF Len(s) > 0 /\ s[Len(s)] = "/"
    THEN 1 + TrailingSlashes(SubSeq(s, 1, Len(s) - 1))
    ELSE 0

TargetDirectoryMode ==
    /\ cli.target_directory
    /\ ~cli.strip_trailing_slashes
    /\ ~cli.no_target_directory

\* C15 as stated: in target-directory mode the source handed to rename ends
\* with exactly one '/', whatever the raw source.
TargetDirectoryEndsWithOneSlash ==
    TargetDirectoryMode =>
        \A j \in Calls("mv") : TrailingSlashes(trace[j].ops[1].from) = 1

\* C15, amended: in target-directory mode the source handed to rename ends
\* with at least one '/': with exactly one when the raw source ends with
\* none or one, and with as many as the raw source when it ends with more.
TargetDirectoryKeepsTrailingSlashes ==
    TargetDirectoryMode =>
        \A j \in Calls("mv") :
            LET raw == cli.source[trace[j].k]
                from == trace[j].ops[1].from
            IN  TrailingSlashes(from) =
                    IF TrailingSlashes(raw) = 0 THEN 1 ELSE TrailingSlashes(raw)

\* target-directory mode, a raw source that ends with two '/'
TargetDirectoryKeepsTrailingSlashesWitness ==
    /\ TargetDirectoryMode
    /\ \E j \in Calls("mv") :
         /\ TrailingSlashes(cli.source[trace[j].k]) = 2
         /\ TrailingSlashes(trace[j].ops[1].from) = 2

----------------------------------------------------------------------------
(* C16 *)

\* C16: resolving the resolved source again changes nothing: stripping an
\* already stripped string, and the target-directory transformation of a
\* string that ends with '/', return it unchanged.
SourceResolutionIdempotent ==
    \A j \in Calls("mv") :
        LET from == trace[j].ops[1].from
        IN  /\ source(cli, from) = from
            /\ strip_trailing(strip_trailing(from)) = strip_trailing(from)
            /\ (cli.strip_trailing_slashes \/ cli.no_target_directory)
                  => strip_trailing(from) = from

\* a raw source with two trailing '/' was stripped
SourceResolutionIdempotentWitness ==
    \E j \in Calls("mv") :
        /\ cli.strip_trailing_slashes \/ cli.no_target_directory
        /\ TrailingSlashes(cli.source[trace[j].k]) = 2
        /\ trace[j].ops[1].from # cli.source[trace[j].k]

----------------------------------------------------------------------------
(* C17 *)

\* C17: with choice None or Off, also when -b is given, a backup call makes
\* no filesystem call, changes no file and reports nothing, and the mv call
\* that follows starts on the filesystem the backup call started on.
NoneChoiceBackupIsNoOp ==
    choice(cli) \in {"None", "Off"} =>
        \A j \in Calls("backup") :
            LET e == trace[j] IN
            /\ e.ops = <<>>
            /\ e.post = e.pre
            /\ ~Reported(e, "copy")
            /\ j < Len(trace) =>
                  /\ trace[j + 1].fn = "mv"
                  /\ trace[j + 1].k = e.k
                  /\ trace[j + 1].pre = e.pre

\* -b with --backup=none or off, the destination exists, and the rename
\* that followed the backup call overwrote it
NoneChoiceBackupIsNoOpWitness ==
    /\ choice(cli) \in {"None", "Off"}
    /\ cli.backup
    /\ \E j \in Calls("backup") :
         /\ exists(trace[j].pre, cli.destination)
         /\ j < Len(trace)
         /\ trace[j + 1].ops[1].ok
         /\ cli.destination \in Changed(trace[j + 1])

----------------------------------------------------------------------------
(* C18 *)

\* the move of call e succeeded: by the rename, or by the fallback copy
MoveSucceeded(e) ==
    /\ e.fn = "mv"
    /\ e.ops[1].ok \/ (Len(e.ops) = 2 /\ e.ops[2].ok)

\* the content call e moved: that of the file the successful call read
MovedContent(e) ==
    IF e.ops[1].ok THEN e.pre[e.ops[1].from] ELSE e.pre[e.ops[2].from]

\* the calls are made in the order of the source list: backup then mv of
\* the first source, backup then mv of the second, ..., each mv on the
\* resolved path of its own source
InListOrder ==
    \A j \in DOMAIN trace :
        /\ trace[j].k = (j + 1) \div 2
        /\ trace[j].fn = main_body[2 - (j % 2)]
        /\ trace[j].fn = "mv" =>
              trace[j].ops[1].from = source(cli, cli.source[trace[j].k])

\* the loop has ended with every move of two or more sources succeeded
AllMovesSucceeded ==
    /\ ~Running
    /\ Len(cli.source) >= 2
    /\ Len(trace) = 2 * Len(cli.source)
    /\ \A j \in Calls("mv") : MoveSucceeded(trace[j])

\* C18 as stated: sources are processed in list order, and when the loop
\* has ended with every move of two or more sources succeeded, the
\* destination holds the content of the last source.
LastSourceWins ==
    /\ InListOrder
    /\ AllMovesSucceeded
         => /\ exists(fs, cli.destination)
            /\ fs[cli.destination] = MovedContent(trace[Len(trace)])

\* C18 amended: as stated, for source lists that do not name the
\* destination itself (a source that is the destination may be copied onto
\* itself by the fallback, which can leave it empty).
LastDistinctSourceWins ==
    /\ InListOrder
    /\ (AllMovesSucceeded /\ \A i \in DOMAIN cli.source : cli.source[i] # cli.destination)
         => /\ exists(fs, cli.destination)
            /\ fs[cli.destination] = MovedContent(trace[Len(trace)])

\* two distinct sources moved by two successful renames: the destination
\* holds what the second had, not what the first had
LastDistinctSourceWinsWitness ==
    /\ AllMovesSucceeded
    /\ \A i \in DOMAIN cli.source : cli.source[i] # cli.destination
    /\ \A j \in Calls("mv") : trace[j].ops[1].ok
    /\ fs[cli.destination] = MovedContent(trace[Len(trace)])
    /\ fs[cli.destination] # MovedContent(trace[2])

----------------------------------------------------------------------------
(* C19 *)

\* C19: a backup call made when the destination exists and the source is an
\* existing file other than the destination writes neither the source nor
\* the destination, leaves the existence and content of both unchanged and
\* removes no path, whatever the options (an empty suffix included).
BackupWritesOnlyBackupFile ==
    \A j \in Calls("backup") :
        LET e == trace[j]
            src == cli.source[e.k]
        IN  (/\ exists(e.pre, cli.destination)
             /\ exists(e.pre, src)
             /\ src # cli.destination) =>
                /\ \A m \in DOMAIN e.ops : e.ops[m].to \notin {src, cli.destination}
                /\ Changed(e) \cap {src, cli.destination} = {}
                /\ DOMAIN e.pre \subseteq DOMAIN e.post

----------------------------------------------------------------------------
(* C20 *)

\* the backup call e entered one of the two index loops
LoopRan(e) == ~backup_skipped(cli, e.pre) /\ backup_loops(cli, e.pre)

\* in f exactly dest+suffix+0 .. dest+suffix+(k-1) exist consecutively and
\* dest+suffix+k does not
FirstGapAt(f, k) ==
    /\ \A i \in 0..(k - 1) : exists(f, Bare \o FormatInt(i))
    /\ ~exists(f, Bare \o FormatInt(k))

\* C20: a backup call that enters the index loop with dest+suffix+0 ..
\* dest+suffix+(k-1) existing and dest+suffix+k free tests k+1 paths, makes
\* exactly one copy, to dest+suffix+k, and returns.
ProbingLoopStopsAtFirstGap ==
    \A j \in Calls("backup") :
        LET e == trace[j] IN
        LoopRan(e) =>
            \A k \in 0..Cardinality(DOMAIN e.pre) :
                FirstGapAt(e.pre, k) =>
                    /\ Len(e.ops) = 1
                    /\ e.ops[1].op = "copy"
                    /\ e.ops[1].probes = k + 1
                    /\ e.ops[1].to = Bare \o FormatInt(k)

\* a call that found indices 0 and 1 taken and copied to index 2 after
\* three probes
ProbingLoopStopsAtFirstGapWitness ==
    \E j \in Calls("backup") :
        /\ LoopRan(trace[j])
        /\ FirstGapAt(trace[j].pre, 2)
        /\ trace[j].ops[1].probes = 3
        /\ trace[j].ops[1].to = Bare \o FormatInt(2)
        /\ exists(trace[j].post, Bare \o FormatInt(2))

====
